---- MODULE Spec2Model ----
(***************************************************************************)
(* exlang: compilation of an XML markup tree into a workbook.              *)
(*                                                                         *)
(* The model follows src/src/exlang/validator.py (validate_xlang_minimal)  *)
(* and src/src/exlang/compiler.py (compile_xlang_to_xlsx).  A document is  *)
(* an element tree; an element is a record [tag, attrib, kids, text] and   *)
(* attrib is a function from the attribute names that are present to their *)
(* string values, as ElementTree's attrib dictionary is.  Strings are TLA+ *)
(* strings read character by character with SubSeq, Len and \o.            *)
(***************************************************************************)
EXTENDS Integers, Sequences, FiniteSets, TLC

\* doc          the parsed markup tree (root)
\* pc           where compile_xlang_to_xlsx stands
\* errors       the list returned by the validator
\* raised       the exception compile ended with, if any
\* sheetIdx     the position of the current sheet in root.findall("xsheet")
\* auto_counter the counter of the auto-generated sheet names
\* created      the titles passed to create_sheet, in call order
\* writes       the cell writes the sink has taken, in call order
\* saved        whether wb.save was called
VARIABLES doc, pc, errors, raised, sheetIdx, auto_counter, created, writes, saved

vars == <<doc, pc, errors, raised, sheetIdx, auto_counter, created, writes, saved>>

(***************************************************************************)
(* Bounds of the enumerated documents.                                     *)
(***************************************************************************)
MaxSheets == 4
MaxContentSheets == 2
MaxDirs == 3

(***************************************************************************)
(* Strings.                                                                *)
(***************************************************************************)
Ch(s, i) == SubSeq(s, i, i)

Drop(s, n) == SubSeq(s, n + 1, Len(s))

StartsWith(s, p) == Len(s) >= Len(p) /\ SubSeq(s, 1, Len(p)) = p

Contains(s, sub) == \E i \in 1..(Len(s) + 1) : StartsWith(Drop(s, i - 1), sub)

DigitChars == <<"0", "1", "2", "3", "4", "5", "6", "7", "8", "9">>

IsDigit(c) == \E i \in 1..10 : DigitChars[i] = c

DigitVal(c) == (CHOOSE i \in 1..10 : DigitChars[i] = c) - 1

IsDigits(s) == Len(s) >= 1 /\ \A i \in 1..Len(s) : IsDigit(Ch(s, i))

RECURSIVE DigitsToNat(_)
DigitsToNat(s) ==
    IF Len(s) = 0 THEN 0
    ELSE 10 * DigitsToNat(SubSeq(s, 1, Len(s) - 1)) + DigitVal(Ch(s, Len(s)))

RECURSIVE NatToStr(_)
NatToStr(n) ==
    IF n < 10 THEN DigitChars[n + 1]
    ELSE NatToStr(n \div 10) \o DigitChars[(n % 10) + 1]

\* str(n) and the f-string conversion {n} of a Python int
IntToStr(n) == IF n < 0 THEN "-" \o NatToStr(-n) ELSE NatToStr(n)

RECURSIVE Strip(_)
Strip(s) ==
    IF Len(s) >= 1 /\ Ch(s, 1) = " " THEN Strip(Drop(s, 1))
    ELSE IF Len(s) >= 1 /\ Ch(s, Len(s)) = " " THEN Strip(SubSeq(s, 1, Len(s) - 1))
    ELSE s

Unsigned(s) == IF Len(s) >= 1 /\ Ch(s, 1) \in {"+", "-"} THEN Drop(s, 1) ELSE s

\* int(s) of Python: surrounding blanks, an optional sign, decimal digits
\* (the documents use no digit-group underscore); the rest raises ValueError
IsIntLiteral(s) == IsDigits(Unsigned(Strip(s)))

ParseInt(s) ==
    LET body == Strip(s)
        mag  == DigitsToNat(Unsigned(body))
    IN  IF Len(body) >= 1 /\ Ch(body, 1) = "-" THEN 0 - mag ELSE mag

(***************************************************************************)
(* Element trees.                                                          *)
(***************************************************************************)
NoAttrib == [k \in {} |-> ""]

Has(e, k) == k \in DOMAIN e.attrib

\* attrib.get(k, default)
Get(e, k, default) == IF Has(e, k) THEN e.attrib[k] ELSE default

\* Python truthiness of attrib.get(k): present and not the empty string
Truthy(e, k) == Has(e, k) /\ e.attrib[k] # ""

Elem(tag, attrib, kids, text) ==
    [tag |-> tag, attrib |-> attrib, kids |-> kids, text |-> text]

\* element.findall(tag): the direct children with that tag, in document order
FindAll(e, tag) == SelectSeq(e.kids, LAMBDA k : k.tag = tag)

RECURSIVE Flatten(_)
Flatten(ss) == IF Len(ss) = 0 THEN <<>> ELSE Head(ss) \o Flatten(Tail(ss))

(***************************************************************************)
(* validator.py                                                            *)
(***************************************************************************)
ALLOWED_TYPES == {"number", "string", "date", "bool"}

RootError(root) == "Root tag must be 'xworkbook' but found '" \o root.tag \o "'"

\* the set explicit_names after the first loop over the sheets
ExplicitNames(root) ==
    LET sheets == FindAll(root, "xsheet")
    IN  {sheets[i].attrib["name"] : i \in {j \in 1..Len(sheets) : Truthy(sheets[j], "name")}}

\* a count of all the sheets instead of the unnamed ones
AutoGeneratedCount_AllSheets(root) == Len(FindAll(root, "xsheet"))

\* auto_generated_count after the first loop over the sheets
AutoGeneratedCount(root) ==
    Len(SelectSeq(FindAll(root, "xsheet"), LAMBDA s : ~Truthy(s, "name")))

CollisionError(auto_name) ==
    "Auto-generated sheet name '" \o auto_name
        \o "' conflicts with explicitly named sheet. "
        \o "Either name all sheets or ensure explicit names don't use 'Sheet1', 'Sheet2', etc."

\* for i in range(1, n + 1): the errors appended, in order
RECURSIVE CollisionErrors(_, _)
CollisionErrors(explicit_names, n) ==
    IF n = 0 THEN <<>>
    ELSE CollisionErrors(explicit_names, n - 1)
            \o (IF ("Sheet" \o IntToStr(n)) \in explicit_names
                THEN <<CollisionError("Sheet" \o IntToStr(n))>>
                ELSE <<>>)

TypeHintBad(e) == Has(e, "t") /\ e.attrib["t"] \notin ALLOWED_TYPES

XRowErrors(xrow) ==
    IF ~Has(xrow, "r") THEN <<"xrow missing required attribute 'r'">> ELSE <<>>

\* the checks chained with elif: a cell reports its first problem alone
XCellErrors_FirstOnly(xcell) ==
    IF ~Has(xcell, "addr") THEN <<"xcell missing required attribute 'addr'">>
    ELSE IF ~Has(xcell, "v") THEN <<"xcell missing required attribute 'v'">>
    ELSE <<>>

XCellErrors(xcell) ==
    (IF ~Has(xcell, "addr") THEN <<"xcell missing required attribute 'addr'">> ELSE <<>>)
    \o (IF ~Has(xcell, "v") THEN <<"xcell missing required attribute 'v'">> ELSE <<>>)
    \o (IF TypeHintBad(xcell)
        THEN <<"xcell at " \o Get(xcell, "addr", "?")
                \o " has invalid type hint t='" \o xcell.attrib["t"] \o "'">>
        ELSE <<>>)

\* the range checked for its required attributes alone
XRangeErrors_NoHintCheck(xrange) ==
    (IF ~Has(xrange, "from") THEN <<"xrange missing required attribute 'from'">> ELSE <<>>)
    \o (IF ~Has(xrange, "to") THEN <<"xrange missing required attribute 'to'">> ELSE <<>>)
    \o (IF ~Has(xrange, "fill") THEN <<"xrange missing required attribute 'fill'">> ELSE <<>>)

XRangeErrors(xrange) ==
    (IF ~Has(xrange, "from") THEN <<"xrange missing required attribute 'from'">> ELSE <<>>)
    \o (IF ~Has(xrange, "to") THEN <<"xrange missing required attribute 'to'">> ELSE <<>>)
    \o (IF ~Has(xrange, "fill") THEN <<"xrange missing required attribute 'fill'">> ELSE <<>>)
    \o (IF TypeHintBad(xrange)
        THEN <<"xrange from " \o Get(xrange, "from", "?") \o " to " \o Get(xrange, "to", "?")
                \o " has invalid type hint t='" \o xrange.attrib["t"] \o "'">>
        ELSE <<>>)

\* one pass of the second loop over the sheets: rows, then cells, then ranges
SheetErrors(sheet) ==
    LET xrows   == FindAll(sheet, "xrow")
        xcells  == FindAll(sheet, "xcell")
        xranges == FindAll(sheet, "xrange")
    IN  Flatten([i \in 1..Len(xrows) |-> XRowErrors(xrows[i])])
        \o Flatten([i \in 1..Len(xcells) |-> XCellErrors(xcells[i])])
        \o Flatten([i \in 1..Len(xranges) |-> XRangeErrors(xranges[i])])

AllSheetErrors(root) ==
    LET sheets == FindAll(root, "xsheet")
    IN  Flatten([i \in 1..Len(sheets) |-> SheetErrors(sheets[i])])

\* the root error appended without the early return
validate_xlang_minimal_NoReturn(root) ==
    (IF root.tag # "xworkbook" THEN <<RootError(root)>> ELSE <<>>)
        \o CollisionErrors(ExplicitNames(root), AutoGeneratedCount(root))
        \o AllSheetErrors(root)

validate_xlang_minimal(root) ==
    IF root.tag # "xworkbook" THEN <<RootError(root)>>
    ELSE CollisionErrors(ExplicitNames(root), AutoGeneratedCount(root))
            \o AllSheetErrors(root)

(***************************************************************************)
(* helpers.py: col_letter_to_index, parse_range, infer_value and           *)
(* substitute_template_vars, as sections 4.1 to 4.3 of the specification   *)
(* describe them.  A failing call returns ok = FALSE and the exception.    *)
(***************************************************************************)
NoException == [type |-> "none", msg |-> ""]

Exception(type, msg) == [type |-> type, msg |-> msg]

Letters == "ABCDEFGHIJKLMNOPQRSTUVWXYZ"

LowerLetters == "abcdefghijklmnopqrstuvwxyz"

IsLetter(c) == \E i \in 1..Len(Letters) : Ch(Letters, i) = c

LetterVal(c) == CHOOSE i \in 1..Len(Letters) : Ch(Letters, i) = c

IsLetters(s) == Len(s) >= 1 /\ \A i \in 1..Len(s) : IsLetter(Ch(s, i))

\* base 26 with A = 1 ... Z = 26, AA = 27
RECURSIVE col_letter_to_index(_)
col_letter_to_index(letters) ==
    IF Len(letters) = 0 THEN 0
    ELSE Len(Letters) * col_letter_to_index(SubSeq(letters, 1, Len(letters) - 1))
            + LetterVal(Ch(letters, Len(letters)))

\* the length of the longest prefix of s made of column letters
RECURSIVE LetterPrefix(_)
LetterPrefix(s) ==
    IF Len(s) >= 1 /\ IsLetter(Ch(s, 1)) THEN 1 + LetterPrefix(Drop(s, 1)) ELSE 0

\* an address <columnLetters><rowDigits>
IsAddress(addr) ==
    LET n == LetterPrefix(addr)
    IN  n >= 1 /\ IsDigits(Drop(addr, n))

AddressRow(addr) == DigitsToNat(Drop(addr, LetterPrefix(addr)))

AddressCol(addr) == col_letter_to_index(SubSeq(addr, 1, LetterPrefix(addr)))

Min(a, b) == IF a <= b THEN a ELSE b

Max(a, b) == IF a >= b THEN a ELSE b

\* (rowMin, colMin, rowMax, colMax), the inclusive bounding rectangle
parse_range(from_addr, to_addr) ==
    IF ~IsAddress(from_addr) \/ ~IsAddress(to_addr)
    THEN [ok |-> FALSE, exc |-> Exception("InvalidAddress", from_addr \o ":" \o to_addr)]
    ELSE [ok |-> TRUE,
          from_row |-> Min(AddressRow(from_addr), AddressRow(to_addr)),
          from_col |-> Min(AddressCol(from_addr), AddressCol(to_addr)),
          to_row   |-> Max(AddressRow(from_addr), AddressRow(to_addr)),
          to_col   |-> Max(AddressCol(from_addr), AddressCol(to_addr))]

\* a typed value: its type and its canonical text
Typed(type, v) == [type |-> type, v |-> v]

\* digits '.' digits with an optional sign, one side of the point may be empty
IsFloatLiteral(s) ==
    LET body == Unsigned(Strip(s))
    IN  \E i \in 1..Len(body) :
            /\ Ch(body, i) = "."
            /\ Len(body) >= 2
            /\ \A j \in 1..Len(body) : j # i => IsDigit(Ch(body, j))

RECURSIVE Lower(_)
Lower(s) ==
    IF Len(s) = 0 THEN ""
    ELSE (IF IsLetter(Ch(s, 1)) THEN Ch(LowerLetters, LetterVal(Ch(s, 1))) ELSE Ch(s, 1))
            \o Lower(Drop(s, 1))

\* an ISO-8601 calendar date YYYY-MM-DD
IsIsoDate(s) ==
    /\ Len(s) = 10
    /\ Ch(s, 5) = "-" /\ Ch(s, 8) = "-"
    /\ IsDigits(SubSeq(s, 1, 4)) /\ IsDigits(SubSeq(s, 6, 7)) /\ IsDigits(SubSeq(s, 9, 10))
    /\ DigitsToNat(SubSeq(s, 6, 7)) \in 1..12
    /\ DigitsToNat(SubSeq(s, 9, 10)) \in 1..31

TypeMismatch(raw, hint) ==
    [ok |-> FALSE, exc |-> Exception("TypeMismatch", "'" \o raw \o "' is not a " \o hint)]

Value(type, v) == [ok |-> TRUE, value |-> Typed(type, v)]

\* no hint: integer literal, then floating-point literal, then the text itself
Sniff(raw) ==
    IF IsIntLiteral(raw) THEN Value("int", IntToStr(ParseInt(raw)))
    ELSE IF IsFloatLiteral(raw) THEN Value("float", Strip(raw))
    ELSE Value("str", raw)

None == "None"

infer_value(raw, type_hint) ==
    IF type_hint = "string" THEN Value("str", raw)
    ELSE IF type_hint = "number" THEN
        IF IsIntLiteral(raw) \/ IsFloatLiteral(raw) THEN Sniff(raw)
        ELSE TypeMismatch(raw, type_hint)
    ELSE IF type_hint = "bool" THEN
        IF Lower(raw) \in {"true", "1"} THEN Value("bool", "true")
        ELSE IF Lower(raw) \in {"false", "0"} THEN Value("bool", "false")
        ELSE TypeMismatch(raw, type_hint)
    ELSE IF type_hint = "date" THEN
        IF IsIsoDate(raw) THEN Value("date", raw) ELSE TypeMismatch(raw, type_hint)
    ELSE Sniff(raw)

\* every '{{i}}' becomes the iteration number, every '{{i0}}' that number less one
RECURSIVE substitute_template_vars(_, _)
substitute_template_vars(raw, i) ==
    IF Len(raw) = 0 THEN ""
    ELSE IF StartsWith(raw, "{{i}}")
        THEN IntToStr(i) \o substitute_template_vars(Drop(raw, Len("{{i}}")), i)
    ELSE IF StartsWith(raw, "{{i0}}")
        THEN IntToStr(i - 1) \o substitute_template_vars(Drop(raw, Len("{{i0}}")), i)
    ELSE Ch(raw, 1) \o substitute_template_vars(Drop(raw, 1), i)

(***************************************************************************)
(* compiler.py: the write phase.  A call of the sink is recorded as        *)
(* [sheet, row, col, value] together with the directive that issued it:    *)
(* its category, its position among the sheet's directives of that         *)
(* category, the iteration (0 outside xrepeat) and the leaf offset.        *)
(***************************************************************************)
Call(sheet, row, col, value, cat, dir, iter, leaf) ==
    [sheet |-> sheet, row |-> row, col |-> col, value |-> value,
     cat |-> cat, dir |-> dir, iter |-> iter, leaf |-> leaf]

Done(calls) == [writes |-> calls, exc |-> NoException]

Fail(exc) == [writes |-> <<>>, exc |-> exc]

KeyError(k) == Exception("KeyError", "'" \o k \o "'")

IntError(s) == Exception("ValueError", "invalid literal for int() with base 10: '" \o s \o "'")

\* Worksheet.cell of the sink raises for a row or column below 1
SinkRejects(call) == call.row < 1 \/ call.col < 1

\* the calls reach the sink one after the other until one raises
Issue(calls) ==
    LET bad == {i \in 1..Len(calls) : SinkRejects(calls[i])}
    IN  IF bad = {} THEN Done(calls)
        ELSE [writes |-> SubSeq(calls, 1, (CHOOSE i \in bad : \A j \in bad : i <= j) - 1),
              exc |-> Exception("ValueError", "Row or column values must be at least 1")]

\* xv.text or ""
LeafText(xv) == xv.text

\* the leaves of a Row expanded as if it were the first iteration of a Repeat
XRowRun_Substituting(xrow, sheet, n) ==
    IF ~Has(xrow, "r") THEN Fail(KeyError("r"))
    ELSE IF ~IsIntLiteral(xrow.attrib["r"]) THEN Fail(IntError(xrow.attrib["r"]))
    ELSE IF ~IsLetters(Get(xrow, "c", "A"))
        THEN Fail(Exception("InvalidAddress", Get(xrow, "c", "A")))
    ELSE
        LET row_idx       == ParseInt(xrow.attrib["r"])
            start_col_idx == col_letter_to_index(Get(xrow, "c", "A"))
            xvs           == FindAll(xrow, "xv")
        IN  Issue([k \in 1..Len(xvs) |->
                Call(sheet, row_idx, start_col_idx + (k - 1),
                     infer_value(substitute_template_vars(LeafText(xvs[k]), 1),
                                 None).value, "xrow", n, 0, k - 1)])

\* one pass of the body of `for xrow in xsheet.findall("xrow")`
XRowRun(xrow, sheet, n) ==
    IF ~Has(xrow, "r") THEN Fail(KeyError("r"))
    ELSE IF ~IsIntLiteral(xrow.attrib["r"]) THEN Fail(IntError(xrow.attrib["r"]))
    ELSE IF ~IsLetters(Get(xrow, "c", "A"))
        THEN Fail(Exception("InvalidAddress", Get(xrow, "c", "A")))
    ELSE
        LET row_idx       == ParseInt(xrow.attrib["r"])
            start_col_idx == col_letter_to_index(Get(xrow, "c", "A"))
            xvs           == FindAll(xrow, "xv")
        IN  Issue([k \in 1..Len(xvs) |->
                Call(sheet, row_idx, start_col_idx + (k - 1),
                     infer_value(LeafText(xvs[k]), None).value, "xrow", n, 0, k - 1)])

\* the loops stop one short of the far corner
XRangeRun_Exclusive(xrange, sheet, n) ==
    IF ~Has(xrange, "from") THEN Fail(KeyError("from"))
    ELSE IF ~Has(xrange, "to") THEN Fail(KeyError("to"))
    ELSE IF ~Has(xrange, "fill") THEN Fail(KeyError("fill"))
    ELSE
        LET rect     == parse_range(xrange.attrib["from"], xrange.attrib["to"])
            inferred == infer_value(xrange.attrib["fill"], Get(xrange, "t", None))
        IN  IF ~rect.ok THEN Fail(rect.exc)
            ELSE IF ~inferred.ok THEN Fail(inferred.exc)
            ELSE
                LET ncols == rect.to_col - rect.from_col
                    nrows == rect.to_row - rect.from_row
                IN  Issue([j \in 1..(nrows * ncols) |->
                        Call(sheet, rect.from_row + ((j - 1) \div ncols),
                             rect.from_col + ((j - 1) % ncols),
                             inferred.value, "xrange", n, 0, j - 1)])

\* one pass of the body of `for xrange in xsheet.findall("xrange")`
XRangeRun(xrange, sheet, n) ==
    IF ~Has(xrange, "from") THEN Fail(KeyError("from"))
    ELSE IF ~Has(xrange, "to") THEN Fail(KeyError("to"))
    ELSE IF ~Has(xrange, "fill") THEN Fail(KeyError("fill"))
    ELSE
        LET rect     == parse_range(xrange.attrib["from"], xrange.attrib["to"])
            inferred == infer_value(xrange.attrib["fill"], Get(xrange, "t", None))
        IN  IF ~rect.ok THEN Fail(rect.exc)
            ELSE IF ~inferred.ok THEN Fail(inferred.exc)
            ELSE
                LET ncols == rect.to_col - rect.from_col + 1
                    nrows == rect.to_row - rect.from_row + 1
                IN  Issue([j \in 1..(nrows * ncols) |->
                        Call(sheet, rect.from_row + ((j - 1) \div ncols),
                             rect.from_col + ((j - 1) % ncols),
                             inferred.value, "xrange", n, 0, j - 1)])

\* every iteration advances the row, whatever the direction
RepeatRow_AlwaysDown(direction, start_row, i, offset) == start_row + (i - 1)

\* the position of leaf `offset` in iteration i
RepeatRow(direction, start_row, i, offset) ==
    IF direction = "down" THEN start_row + (i - 1) ELSE start_row + offset

RepeatCol(direction, start_col_idx, i, offset) ==
    IF direction = "down" THEN start_col_idx + offset ELSE start_col_idx + (i - 1)

\* one pass of the body of `for xrepeat in xsheet.findall("xrepeat")`
XRepeatRun(xrepeat, sheet, n) ==
    IF ~Has(xrepeat, "times") THEN Fail(KeyError("times"))
    ELSE IF ~IsIntLiteral(xrepeat.attrib["times"]) THEN Fail(IntError(xrepeat.attrib["times"]))
    ELSE IF ~IsIntLiteral(Get(xrepeat, "r", "1")) THEN Fail(IntError(Get(xrepeat, "r", "1")))
    ELSE IF ~IsLetters(Get(xrepeat, "c", "A"))
        THEN Fail(Exception("InvalidAddress", Get(xrepeat, "c", "A")))
    ELSE
        LET times         == ParseInt(xrepeat.attrib["times"])
            direction     == Get(xrepeat, "direction", "down")
            start_row     == ParseInt(Get(xrepeat, "r", "1"))
            start_col_idx == col_letter_to_index(Get(xrepeat, "c", "A"))
            template_xvs  == FindAll(xrepeat, "xv")
            m             == Len(template_xvs)
        IN  IF times < 1 \/ m = 0 THEN Done(<<>>)
            ELSE Issue([j \in 1..(times * m) |->
                    LET i      == ((j - 1) \div m) + 1
                        offset == (j - 1) % m
                    IN  Call(sheet,
                             RepeatRow(direction, start_row, i, offset),
                             RepeatCol(direction, start_col_idx, i, offset),
                             infer_value(substitute_template_vars(
                                 LeafText(template_xvs[offset + 1]), i), None).value,
                             "xrepeat", n, i, offset)])

\* one pass of the body of `for xcell in xsheet.findall("xcell")`;
\* ws[addr] = value resolves the address in the sink
XCellRun(xcell, sheet, n) ==
    IF ~Has(xcell, "addr") THEN Fail(KeyError("addr"))
    ELSE IF ~Has(xcell, "v") THEN Fail(KeyError("v"))
    ELSE
        LET addr     == xcell.attrib["addr"]
            inferred == infer_value(xcell.attrib["v"], Get(xcell, "t", None))
        IN  IF ~inferred.ok THEN Fail(inferred.exc)
            ELSE IF ~IsAddress(addr) THEN Fail(Exception("InvalidAddress", addr))
            ELSE Issue(<<Call(sheet, AddressRow(addr), AddressCol(addr),
                              inferred.value, "xcell", n, 0, 0)>>)

\* a loop that swallows the exception of a pass and goes on with the next
RECURSIVE RunAll_SkipFailed(_)
RunAll_SkipFailed(runs) ==
    IF Len(runs) = 0 THEN Done(<<>>)
    ELSE Done(Head(runs).writes \o RunAll_SkipFailed(Tail(runs)).writes)

\* a for loop over directives: each pass runs unless an earlier one raised
RECURSIVE RunAll(_)
RunAll(runs) ==
    IF Len(runs) = 0 THEN Done(<<>>)
    ELSE IF Head(runs).exc # NoException THEN Head(runs)
    ELSE LET rest == RunAll(Tail(runs))
         IN  [writes |-> Head(runs).writes \o rest.writes, exc |-> rest.exc]

Tags == [rows |-> "xrow", ranges |-> "xrange", repeats |-> "xrepeat", cells |-> "xcell"]

DirectiveRun(phase, e, sheet, n) ==
    CASE phase = "rows"    -> XRowRun(e, sheet, n)
      [] phase = "ranges"  -> XRangeRun(e, sheet, n)
      [] phase = "repeats" -> XRepeatRun(e, sheet, n)
      [] phase = "cells"   -> XCellRun(e, sheet, n)

\* the directives of a category taken from the last to the first
CategoryRun_Reversed(phase, xsheet, sheet) ==
    LET es == FindAll(xsheet, Tags[phase])
    IN  RunAll([n \in 1..Len(es) |->
            DirectiveRun(phase, es[Len(es) + 1 - n], sheet, Len(es) + 1 - n)])

\* the whole loop of one category over one sheet
CategoryRun(phase, xsheet, sheet) ==
    LET es == FindAll(xsheet, Tags[phase])
    IN  RunAll([n \in 1..Len(es) |-> DirectiveRun(phase, es[n], sheet, n)])

\* the cells written first, so that every other category overwrites them
Order_CellsFirst == <<"cells", "rows", "ranges", "repeats">>

\* Process in order: xrow, xrange, xrepeat, xcell
Order == <<"rows", "ranges", "repeats", "cells">>

\* what follows a category loop: the next one, or the head of the sheet loop
Following(phase) ==
    LET at == CHOOSE i \in 1..Len(Order) : Order[i] = phase
    IN  IF at < Len(Order) THEN Order[at + 1] ELSE "sheet"

\* `if sheet_name is not None`: an empty name counts as a name
SheetName_NoneOnly(xsheet, counter) ==
    IF Has(xsheet, "name") THEN xsheet.attrib["name"] ELSE "Sheet" \o IntToStr(counter)

\* the title given to create_sheet
SheetName(xsheet, counter) ==
    IF Truthy(xsheet, "name") THEN xsheet.attrib["name"] ELSE "Sheet" \o IntToStr(counter)

\* a counter over all the sheets instead of the unnamed ones
NextCounter_AllSheets(xsheet, counter) == counter + 1

\* auto_counter after the naming of a sheet
NextCounter(xsheet, counter) ==
    IF Truthy(xsheet, "name") THEN counter ELSE counter + 1

\* the message of the ValueError raised for a non-empty error list
RECURSIVE JoinLines(_)
JoinLines(lines) ==
    IF Len(lines) = 0 THEN ""
    ELSE IF Len(lines) = 1 THEN Head(lines)
    ELSE Head(lines) \o "\n" \o JoinLines(Tail(lines))

\* a message that carries the first error alone
Formatted_FirstOnly(errs) == "Invalid XLang:\n" \o "  - " \o errs[1]

Formatted(errs) ==
    "Invalid XLang:\n" \o JoinLines([i \in 1..Len(errs) |-> "  - " \o errs[i]])

(***************************************************************************)
(* The documents compiled.                                                 *)
(***************************************************************************)
XV(text) == Elem("xv", NoAttrib, <<>>, text)

XRow(attrib, texts) == Elem("xrow", attrib, [i \in 1..Len(texts) |-> XV(texts[i])], "")

XRange(attrib) == Elem("xrange", attrib, <<>>, "")

XRepeat(attrib, kids) == Elem("xrepeat", attrib, kids, "")

XCell(attrib) == Elem("xcell", attrib, <<>>, "")

XSheet(attrib, kids) == Elem("xsheet", attrib, kids, "")

Document(tag, sheets) == Elem(tag, NoAttrib, sheets, "")

SeqsUpTo(S, n) == UNION {[1..k -> S] : k \in 0..n}

\* directives the validator of the specification accepts and the sink takes
ValidDirs ==
    { XRow([r |-> "1"], <<"a", "2">>),
      XRow([r |-> "2", c |-> "B"], <<"Row {{i}}", "1.5">>),
      XRange([from |-> "A1", to |-> "B2", fill |-> "0", t |-> "number"]),
      XRange([from |-> "B3", to |-> "A2", fill |-> "f"]),
      XRepeat([times |-> "2"], <<XV("Row {{i}}")>>),
      XRepeat([times |-> "2", r |-> "1", c |-> "A", direction |-> "right"],
              <<XV("Q{{i}}"), XV("{{i0}}")>>),
      XRepeat([times |-> "3", r |-> "2", c |-> "B", direction |-> "down"],
              <<XV("{{i}}{{i0}}"), XV("0")>>),
      XCell([addr |-> "A1", v |-> "Overridden"]),
      XCell([addr |-> "B2", v |-> "42", t |-> "number"]),
      XCell([addr |-> "A1", v |-> "True", t |-> "bool"]) }

\* directives that break a rule of the specification or fail in the write phase
OddDirs ==
    { XRow(NoAttrib, <<"a">>),
      XRow([r |-> "abc"], <<"a">>),
      XRow([r |-> "1", c |-> "1"], <<"a">>),
      XRow([r |-> "0"], <<"a", "b">>),
      XRange([from |-> "A1", fill |-> "0"]),
      XRange([to |-> "B2"]),
      XRange([from |-> "A1", to |-> "A2", fill |-> "abc", t |-> "number"]),
      XRange([from |-> "A1", to |-> "A2", fill |-> "0", t |-> "integer"]),
      XRange([from |-> "1A", to |-> "A2", fill |-> "0"]),
      XRepeat([r |-> "1", c |-> "A"], <<XV("Test")>>),
      XRepeat([times |-> "abc", r |-> "1", c |-> "A"], <<XV("Test")>>),
      XRepeat([times |-> "0", r |-> "1", c |-> "A"], <<XV("Test")>>),
      XRepeat([times |-> "-5", r |-> "1", c |-> "A"], <<XV("Test")>>),
      XRepeat([times |-> "3", direction |-> "diagonal"], <<XV("Test")>>),
      XRepeat([times |-> "2", r |-> "0"], <<XV("Test")>>),
      XRepeat([times |-> "2"],
              <<XV("Outer {{i}}"), XRepeat([times |-> "2"], <<XV("Inner")>>)>>),
      XRepeat([times |-> "3"], <<XCell([addr |-> "A1", v |-> "Test"])>>),
      XRepeat([times |-> "3"], <<XRow([r |-> "1"], <<"Test">>)>>),
      XCell([v |-> "x"]),
      XCell([addr |-> "A1"]),
      XCell(NoAttrib),
      XCell([addr |-> "A1", v |-> "abc", t |-> "number"]),
      XCell([addr |-> "1A", v |-> "x"]),
      XCell([addr |-> "C3", v |-> "x", t |-> "integer"]) }

\* one sheet named Test: up to MaxDirs accepted directives in any order
LayeredDocs ==
    {Document("xworkbook", <<XSheet([name |-> "Test"], kids)>>) :
        kids \in SeqsUpTo(ValidDirs, MaxDirs)}

\* one sheet named Test: an odd directive alone, beside an accepted one,
\* or beside another odd one
OddDocs ==
    {Document("xworkbook", <<XSheet([name |-> "Test"], kids)>>) :
        kids \in {<<d>> : d \in OddDirs}
                 \cup {<<d, e>> : d \in OddDirs, e \in ValidDirs \cup OddDirs}
                 \cup {<<e, d>> : d \in OddDirs, e \in ValidDirs}}

SheetNames == {"Sheet1", "Sheet2", "Data", ""}

NameAttribs == {NoAttrib} \cup {[name |-> nm] : nm \in SheetNames}

RootTags == {"xworkbook", "workbook"}

\* up to MaxSheets empty sheets, each named or not
NamingDocs ==
    {Document(tag, sheets) :
        tag \in RootTags,
        sheets \in SeqsUpTo({XSheet(a, <<>>) : a \in NameAttribs}, MaxSheets)}

SheetBodies ==
    { <<>>,
      <<XCell([addr |-> "A1", v |-> "Summary"])>>,
      <<XRow(NoAttrib, <<"a">>)>>,
      <<XCell(NoAttrib), XRange([from |-> "A1", t |-> "integer"])>>,
      <<XRow([r |-> "abc"], <<"a">>)>>,
      <<XCell([addr |-> "B1", v |-> "abc", t |-> "number"])>> }

\* up to MaxContentSheets sheets with content, under either root
ManySheetDocs ==
    {Document(tag, sheets) :
        tag \in RootTags,
        sheets \in SeqsUpTo({XSheet(a, b) : a \in {NoAttrib, [name |-> "Sheet1"]},
                                            b \in SheetBodies}, MaxContentSheets)}

Documents == LayeredDocs \cup OddDocs \cup NamingDocs \cup ManySheetDocs

(***************************************************************************)
(* compile_xlang_to_xlsx, step by step.                                    *)
(***************************************************************************)
Sheets == FindAll(doc, "xsheet")

Init ==
    /\ doc \in Documents
    /\ pc = "start"
    /\ errors = <<>>
    /\ raised = NoException
    /\ sheetIdx = 0
    /\ auto_counter = 0
    /\ created = <<>>
    /\ writes = <<>>
    /\ saved = FALSE

\* errors = validate_xlang_minimal(root)
Validate ==
    /\ pc = "start"
    /\ errors' = validate_xlang_minimal(doc)
    /\ pc' = "validated"
    /\ UNCHANGED <<doc, raised, sheetIdx, auto_counter, created, writes, saved>>

\* if errors: raise ValueError("Invalid XLang:\n" + formatted)
RaiseInvalid ==
    /\ pc = "validated"
    /\ errors # <<>>
    /\ raised' = Exception("ValueError", Formatted(errors))
    /\ pc' = "raised"
    /\ UNCHANGED <<doc, errors, sheetIdx, auto_counter, created, writes, saved>>

\* wb = Workbook(); wb.remove(wb.active); auto_counter = 1
OpenWorkbook ==
    /\ pc = "validated"
    /\ errors = <<>>
    /\ auto_counter' = 1
    /\ pc' = "sheet"
    /\ UNCHANGED <<doc, errors, raised, sheetIdx, created, writes, saved>>

\* the head of one pass of `for xsheet in root.findall("xsheet")`
CreateSheet ==
    /\ pc = "sheet"
    /\ sheetIdx < Len(Sheets)
    /\ sheetIdx' = sheetIdx + 1
    /\ created' = Append(created, SheetName(Sheets[sheetIdx + 1], auto_counter))
    /\ auto_counter' = NextCounter(Sheets[sheetIdx + 1], auto_counter)
    /\ pc' = Order[1]
    /\ UNCHANGED <<doc, errors, raised, writes, saved>>

\* one category loop of the current sheet, to its end or to the exception
Process(phase) ==
    /\ pc = phase
    /\ LET run == CategoryRun(phase, Sheets[sheetIdx], sheetIdx)
       IN  /\ writes' = writes \o run.writes
           /\ raised' = run.exc
           /\ pc' = IF run.exc = NoException THEN Following(phase) ELSE "crashed"
    /\ UNCHANGED <<doc, errors, sheetIdx, auto_counter, created, saved>>

ProcessRows == Process("rows")

ProcessRanges == Process("ranges")

ProcessRepeats == Process("repeats")

ProcessCells == Process("cells")

\* wb.save(str(output_path)) after the last sheet
Save ==
    /\ pc = "sheet"
    /\ sheetIdx = Len(Sheets)
    /\ saved' = TRUE
    /\ pc' = "saved"
    /\ UNCHANGED <<doc, errors, raised, sheetIdx, auto_counter, created, writes>>

Next ==
    \/ Validate
    \/ RaiseInvalid
    \/ OpenWorkbook
    \/ CreateSheet
    \/ ProcessRows
    \/ ProcessRanges
    \/ ProcessRepeats
    \/ ProcessCells
    \/ Save

Spec == Init /\ [][Next]_vars

(***************************************************************************)
(* Properties.                                                             *)
(***************************************************************************)
Count(seq, P(_)) == Cardinality({i \in 1..Len(seq) : P(seq[i])})

\* a sheet is named when its name attribute is present and not empty
IsNamed(xsheet) == Has(xsheet, "name") /\ xsheet.attrib["name"] # ""

UnnamedUpTo(j) == Cardinality({i \in 1..j : ~IsNamed(Sheets[i])})

AutoNames == <<"Sheet1", "Sheet2", "Sheet3", "Sheet4", "Sheet5", "Sheet6">>

ExpectedName(j) ==
    IF IsNamed(Sheets[j]) THEN Sheets[j].attrib["name"] ELSE AutoNames[UnnamedUpTo(j)]

PassedValidation == pc # "start" /\ errors = <<>>

SinkUntouched == created = <<>> /\ writes = <<>> /\ ~saved

\* C1 as stated: a document that passes validation ends with one sheet per
\* sheet node, named as expected, however the compilation ends.
C1_Original ==
    (PassedValidation /\ pc \in {"saved", "crashed"})
        => created = [j \in 1..Len(Sheets) |-> ExpectedName(j)]

\* C1 amended: for a document that passes validation the sheets created so
\* far are those of the first sheet nodes, in document order, an explicit
\* name kept and the j-th unnamed sheet called Sheet<j>; a compilation that
\* ends without an exception in the write phase has created one per node.
C1_SheetNames ==
    PassedValidation =>
        /\ sheetIdx <= Len(Sheets)
        /\ created = [j \in 1..sheetIdx |-> ExpectedName(j)]
        /\ (pc = "saved" => sheetIdx = Len(Sheets))

C1_Witness ==
    /\ pc = "saved"
    /\ Len(Sheets) >= 3
    /\ ~IsNamed(Sheets[1]) /\ IsNamed(Sheets[2]) /\ ~IsNamed(Sheets[3])
    /\ created[3] = "Sheet2"

UnnamedCount == UnnamedUpTo(Len(Sheets))

\* the k for which Sheet<k> is an auto-generated name and an explicit one
Colliding ==
    {k \in 1..UnnamedCount :
        \E j \in 1..Len(Sheets) :
            IsNamed(Sheets[j]) /\ Sheets[j].attrib["name"] = AutoNames[k]}

IsCollisionError(e) == Contains(e, "conflicts with explicitly named sheet")

IsCollisionErrorFor(e, k) ==
    StartsWith(e, "Auto-generated sheet name '" \o AutoNames[k] \o "' conflicts")

\* C2: under a workbook root the validator reports one collision error for
\* each colliding k and no other collision error, and a document with a
\* collision never reaches the write phase.
C2_Collisions ==
    (pc # "start" /\ doc.tag = "xworkbook") =>
        /\ \A k \in Colliding : Count(errors, LAMBDA e : IsCollisionErrorFor(e, k)) = 1
        /\ Count(errors, IsCollisionError) = Cardinality(Colliding)
        /\ (Colliding # {} => pc \in {"validated", "raised"} /\ SinkUntouched)

C2_Witness ==
    /\ pc = "raised"
    /\ Cardinality(Colliding) = 2
    /\ IsNamed(Sheets[1])

\* C3: with a non-empty error list compile fails with an error that carries
\* every message of the list, and the sink is untouched.
C3_FailsUntouched ==
    (pc # "start" /\ errors # <<>>) =>
        /\ pc \in {"validated", "raised"}
        /\ SinkUntouched
        /\ (pc = "validated" => ENABLED RaiseInvalid /\ ~ENABLED OpenWorkbook)
        /\ (pc = "raised" =>
                /\ raised.type = "ValueError"
                /\ \A i \in 1..Len(errors) : Contains(raised.msg, errors[i]))

C3_Witness ==
    /\ pc = "raised"
    /\ Len(errors) >= 2
    /\ errors[1] # errors[2]
    /\ SinkUntouched

\* the precedence of the categories
Rank(cat) == CASE cat = "xrow" -> 1 [] cat = "xrange" -> 2 [] cat = "xrepeat" -> 3 [] cat = "xcell" -> 4

At(w, sheet, row, col) == w.sheet = sheet /\ w.row = row /\ w.col = col

Addresses == {<<writes[i].sheet, writes[i].row, writes[i].col>> : i \in 1..Len(writes)}

WritesAt(a) == {i \in 1..Len(writes) : At(writes[i], a[1], a[2], a[3])}

Last(S) == CHOOSE i \in S : \A j \in S : j <= i

\* the write that decides the value of the cell
FinalAt(a) == writes[Last(WritesAt(a))]

CategoriesAt(a) == {writes[i].cat : i \in WritesAt(a)}

\* C4: the value of a cell written by several categories is the one written
\* by the highest of them in the order Row < Range < Repeat < Cell.
C4_Precedence ==
    \A a \in Addresses :
        \A cat \in CategoriesAt(a) : Rank(cat) <= Rank(FinalAt(a).cat)

\* a Cell placed before a Range in the markup wins, and a Repeat placed
\* before a Range overwrites its fill
C4_Witness ==
    /\ pc = "saved"
    /\ Len(Sheets) = 1
    /\ Len(Sheets[1].kids) = 3
    /\ Sheets[1].kids[1].tag = "xcell"
    /\ Sheets[1].kids[2].tag = "xrepeat"
    /\ Sheets[1].kids[3].tag = "xrange"
    /\ CategoriesAt(<<1, 1, 1>>) = {"xcell", "xrepeat", "xrange"}
    /\ FinalAt(<<1, 1, 1>>).cat = "xcell"
    /\ FinalAt(<<1, 1, 1>>).value = Typed("str", "Overridden")
    /\ CategoriesAt(<<1, 2, 1>>) = {"xrepeat", "xrange"}
    /\ FinalAt(<<1, 2, 1>>).cat = "xrepeat"

\* the Repeat directives of sheet s, in document order
Repeats(s) == FindAll(Sheets[s], "xrepeat")

\* the Repeat loop of sheet s has run to its end
RepeatsDone(s) == sheetIdx > s \/ (sheetIdx = s /\ pc \in {"cells", "sheet", "saved"})

\* a Repeat with an iteration count of at least 1, a 1-based anchor row, an
\* anchor column and a direction that is down, right or absent
WellFormedRepeat(e) ==
    /\ Has(e, "times") /\ IsDigits(e.attrib["times"]) /\ DigitsToNat(e.attrib["times"]) >= 1
    /\ Has(e, "r") => (IsDigits(e.attrib["r"]) /\ DigitsToNat(e.attrib["r"]) >= 1)
    /\ Has(e, "c") => IsLetters(e.attrib["c"])
    /\ Has(e, "direction") => e.attrib["direction"] \in {"down", "right"}

AnchorRow(e) == IF Has(e, "r") THEN DigitsToNat(e.attrib["r"]) ELSE 1

AnchorCol(e) == IF Has(e, "c") THEN col_letter_to_index(e.attrib["c"]) ELSE 1

GoesRight(e) == Has(e, "direction") /\ e.attrib["direction"] = "right"

\* the writes of the n-th Repeat of sheet s
RepeatWrites(s, n) ==
    {i \in 1..Len(writes) :
        writes[i].sheet = s /\ writes[i].cat = "xrepeat" /\ writes[i].dir = n}

\* C5: a Repeat with n iterations and m leaves issues n*m writes, leaf k of
\* iteration i at (r0+i-1, c0+k) when it goes down and at (r0+k, c0+i-1) when
\* it goes right, and writes no other cell.
C5_RepeatPlacement ==
    \A s \in 1..Len(Sheets) :
        RepeatsDone(s) =>
            \A n \in 1..Len(Repeats(s)) :
                LET e  == Repeats(s)[n]
                    xs == FindAll(e, "xv")
                    W  == RepeatWrites(s, n)
                IN  WellFormedRepeat(e) =>
                        /\ Cardinality(W) = DigitsToNat(e.attrib["times"]) * Len(xs)
                        /\ \A i \in 1..DigitsToNat(e.attrib["times"]) :
                            \A k \in 0..(Len(xs) - 1) :
                                \E w \in W :
                                    /\ writes[w].value = infer_value(
                                         substitute_template_vars(xs[k + 1].text, i), None).value
                                    /\ writes[w].row =
                                         IF GoesRight(e) THEN AnchorRow(e) + k
                                         ELSE AnchorRow(e) + i - 1
                                    /\ writes[w].col =
                                         IF GoesRight(e) THEN AnchorCol(e) + i - 1
                                         ELSE AnchorCol(e) + k
                        /\ \A w \in W :
                            \E i \in 1..DigitsToNat(e.attrib["times"]) :
                                \E k \in 0..(Len(xs) - 1) :
                                    /\ writes[w].row =
                                         IF GoesRight(e) THEN AnchorRow(e) + k
                                         ELSE AnchorRow(e) + i - 1
                                    /\ writes[w].col =
                                         IF GoesRight(e) THEN AnchorCol(e) + i - 1
                                         ELSE AnchorCol(e) + k

\* a Repeat going right with two leaves beside a Repeat with the default
\* anchor and direction, both written
C5_Witness ==
    /\ pc = "saved"
    /\ Len(Sheets) = 1
    /\ Len(Repeats(1)) = 2
    /\ GoesRight(Repeats(1)[1]) /\ Len(FindAll(Repeats(1)[1], "xv")) = 2
    /\ WellFormedRepeat(Repeats(1)[1])
    /\ ~Has(Repeats(1)[2], "r") /\ ~Has(Repeats(1)[2], "direction")
    /\ WellFormedRepeat(Repeats(1)[2])
    /\ Cardinality(RepeatWrites(1, 1)) = 4
    /\ Cardinality(RepeatWrites(1, 2)) = 2

\* the directives with tag `tag` of all the sheets, as <<sheet, position>>
Directives(tag) ==
    UNION {{<<s, n>> : n \in 1..Len(FindAll(Sheets[s], tag))} : s \in 1..Len(Sheets)}

Directive(tag, d) == FindAll(Sheets[d[1]], tag)[d[2]]

Validated == pc # "start" /\ doc.tag = "xworkbook"

InWritePhase == pc \in {"sheet", "rows", "ranges", "repeats", "cells", "saved", "crashed"}

TimesState(e) ==
    IF ~Has(e, "times") THEN "absent"
    ELSE IF ~IsIntLiteral(e.attrib["times"]) THEN "not an integer"
    ELSE IF ParseInt(e.attrib["times"]) < 1 THEN "below 1"
    ELSE "good"

RepeatsWithTimes(state) ==
    {d \in Directives("xrepeat") : TimesState(Directive("xrepeat", d)) = state}

\* C6: the validator returns one error for each Repeat without `times`, one
\* "must be an integer" error for each Repeat whose `times` is no integer and
\* one "must be >= 1" error for each Repeat whose `times` is below 1.
C6_TimesChecked ==
    Validated =>
        /\ Count(errors, LAMBDA e : Contains(e, "xrepeat missing required attribute 'times'"))
              = Cardinality(RepeatsWithTimes("absent"))
        /\ Count(errors, LAMBDA e : Contains(e, "must be an integer"))
              = Cardinality(RepeatsWithTimes("not an integer"))
        /\ Count(errors, LAMBDA e : Contains(e, "must be >= 1"))
              = Cardinality(RepeatsWithTimes("below 1"))

BadDirection(e) == Has(e, "direction") /\ e.attrib["direction"] \notin {"down", "right"}

\* C7: a Repeat whose direction is neither down nor right gets an error that
\* names the value, and compile never reaches the write phase with it.
C7_DirectionChecked ==
    Validated =>
        \A d \in Directives("xrepeat") :
            BadDirection(Directive("xrepeat", d)) =>
                /\ \E i \in 1..Len(errors) :
                    Contains(errors[i], Directive("xrepeat", d).attrib["direction"])
                /\ ~InWritePhase

HasForeignChild(e) == \E i \in 1..Len(e.kids) : e.kids[i].tag # "xv"

\* C8: a Repeat with a child that is no Value leaf gets at least one error,
\* and compile raises before any sink write.
C8_ChildrenChecked ==
    Validated =>
        \A d \in Directives("xrepeat") :
            HasForeignChild(Directive("xrepeat", d)) =>
                /\ errors # <<>>
                /\ SinkUntouched

Lacking(tag, k) == Cardinality({d \in Directives(tag) : ~Has(Directive(tag, d), k)})

Reported(msg) == Count(errors, LAMBDA e : e = msg)

\* C9: under a workbook root the error list holds one error for each Row
\* without r, each Cell without addr, each Cell without v and each of from,
\* to, fill missing on each Range, over all the sheets; the validator always
\* returns.
C9_Accumulates ==
    /\ pc = "start" => ENABLED Validate
    /\ Validated =>
        /\ Reported("xrow missing required attribute 'r'") = Lacking("xrow", "r")
        /\ Reported("xcell missing required attribute 'addr'") = Lacking("xcell", "addr")
        /\ Reported("xcell missing required attribute 'v'") = Lacking("xcell", "v")
        /\ Reported("xrange missing required attribute 'from'") = Lacking("xrange", "from")
        /\ Reported("xrange missing required attribute 'to'") = Lacking("xrange", "to")
        /\ Reported("xrange missing required attribute 'fill'") = Lacking("xrange", "fill")

\* errors of every kind in two sheets, after a collision error
C9_Witness ==
    /\ pc = "raised"
    /\ Len(Sheets) = 2
    /\ Colliding # {}
    /\ IsCollisionError(errors[1])
    /\ Len(FindAll(Sheets[1], "xcell")) = 1 /\ Len(FindAll(Sheets[2], "xrow")) = 1
    /\ Lacking("xcell", "addr") = 1 /\ Lacking("xcell", "v") = 1
    /\ Lacking("xrange", "to") = 1 /\ Lacking("xrange", "fill") = 1
    /\ Lacking("xrow", "r") = 1
    /\ Len(errors) = 7

\* C10: under a root that is not the workbook construct the validator
\* returns the root error alone.
C10_RootShortCircuit ==
    (pc # "start" /\ doc.tag # "xworkbook") =>
        /\ Len(errors) = 1
        /\ errors[1] = "Root tag must be 'xworkbook' but found '" \o doc.tag \o "'"

\* a wrong root over a name collision, missing attributes and a bad hint
C10_Witness ==
    /\ pc = "raised"
    /\ doc.tag # "xworkbook"
    /\ Colliding # {}
    /\ Lacking("xcell", "addr") >= 1
    /\ \E d \in Directives("xrange") : TypeHintBad(Directive("xrange", d))
    /\ Len(errors) = 1

HintOutsideSet(e) ==
    Has(e, "t") /\ e.attrib["t"] \notin {"number", "string", "date", "bool"}

BadHints(tag) == {d \in Directives(tag) : HintOutsideSet(Directive(tag, d))}

IsHintError(e) == Contains(e, "has invalid type hint")

CitesHint(e, d) == Contains(e, "t='" \o d.attrib["t"] \o "'")

\* the error cites the address of the Cell, when it has one
IsCellHintError(e, xcell) ==
    /\ IsHintError(e) /\ StartsWith(e, "xcell at ") /\ CitesHint(e, xcell)
    /\ Has(xcell, "addr") => Contains(e, " " \o xcell.attrib["addr"] \o " ")

\* the error cites the corners of the Range, those it has
IsRangeHintError(e, xrange) ==
    /\ IsHintError(e) /\ StartsWith(e, "xrange from ") /\ CitesHint(e, xrange)
    /\ Has(xrange, "from") => Contains(e, "from " \o xrange.attrib["from"] \o " to ")
    /\ Has(xrange, "to") => Contains(e, " to " \o xrange.attrib["to"] \o " has")

\* C11: the validator returns one type-hint error, citing the directive and
\* the hint, for each Cell and each Range whose hint is outside {number,
\* string, date, bool} and none for the others, and the write phase is never
\* entered with such a hint.
C11_TypeHints ==
    Validated =>
        /\ Count(errors, IsHintError)
              = Cardinality(BadHints("xcell")) + Cardinality(BadHints("xrange"))
        /\ \A d \in BadHints("xcell") :
              \E i \in 1..Len(errors) : IsCellHintError(errors[i], Directive("xcell", d))
        /\ \A d \in BadHints("xrange") :
              \E i \in 1..Len(errors) : IsRangeHintError(errors[i], Directive("xrange", d))
        /\ InWritePhase => (BadHints("xcell") = {} /\ BadHints("xrange") = {})

\* a Cell and a Range with a hint outside the set, one error each
C11_Witness ==
    /\ pc = "raised"
    /\ Cardinality(BadHints("xcell")) = 1
    /\ Cardinality(BadHints("xrange")) = 1
    /\ Len(errors) = 2

Failed == pc \in {"raised", "crashed"}

\* the n-th directive with tag `tag` of sheet s has written
HasWritten(tag, d) ==
    \E i \in 1..Len(writes) :
        writes[i].sheet = d[1] /\ writes[i].cat = tag /\ writes[i].dir = d[2]

\* a Row or a Repeat that has a leaf to write
HasLeaf(e) == Len(FindAll(e, "xv")) >= 1

\* C12 as stated: a compilation that fails has created no sheet and set no
\* cell.
C12_Original == Failed => SinkUntouched

\* C12 amended: a failure of validation leaves the sink untouched; a failure
\* in the write phase may follow created sheets and written cells, but the
\* workbook is saved only after every sheet was created and every directive
\* has written, and never after a failure.
C12_SaveAtomic ==
    /\ pc = "raised" => (SinkUntouched /\ raised # NoException)
    /\ pc = "crashed" => (~saved /\ raised # NoException)
    /\ saved =>
        /\ pc = "saved" /\ raised = NoException
        /\ Len(created) = Len(Sheets)
        /\ \A d \in Directives("xcell") : HasWritten("xcell", d)
        /\ \A d \in Directives("xrange") : HasWritten("xrange", d)
        /\ \A d \in Directives("xrow") :
              HasLeaf(Directive("xrow", d)) => HasWritten("xrow", d)
        /\ \A d \in Directives("xrepeat") :
              (HasLeaf(Directive("xrepeat", d))
                    /\ TimesState(Directive("xrepeat", d)) = "good")
                => HasWritten("xrepeat", d)

\* a failure in the write phase after a sheet was created and a cell set
C12_Witness ==
    /\ pc = "crashed"
    /\ PassedValidation
    /\ created # <<>>
    /\ writes # <<>>
    /\ ~saved

\* the directive that issued write w
Issuer(w) == FindAll(Sheets[w.sheet], w.cat)[w.dir]

\* what the issuing directive writes with w, for a Cell, a Range and a Row
IssuedValue(w) ==
    CASE w.cat = "xcell" ->
            infer_value(Issuer(w).attrib["v"], Get(Issuer(w), "t", None)).value
      [] w.cat = "xrange" ->
            infer_value(Issuer(w).attrib["fill"], Get(Issuer(w), "t", None)).value
      [] w.cat = "xrow" ->
            infer_value(FindAll(Issuer(w), "xv")[w.leaf + 1].text, None).value
      [] OTHER -> w.value

\* u is issued before w inside one directive: by iteration, then by leaf
InLeafOrder(u, w) == u.iter < w.iter \/ (u.iter = w.iter /\ u.leaf < w.leaf)

\* C14: the sink receives the writes of a category of a sheet in document
\* order of the directives and in leaf order inside a directive, so that of
\* two directives of one category that write an address the later one in
\* the document decides the value.
C14_DocumentOrder ==
    /\ \A i, j \in 1..Len(writes) :
          (i < j /\ writes[i].sheet = writes[j].sheet /\ writes[i].cat = writes[j].cat) =>
              \/ writes[i].dir < writes[j].dir
              \/ (writes[i].dir = writes[j].dir /\ InLeafOrder(writes[i], writes[j]))
    /\ \A i \in 1..Len(writes) :
          /\ writes[i].dir \in 1..Len(FindAll(Sheets[writes[i].sheet], writes[i].cat))
          /\ writes[i].value = IssuedValue(writes[i])

\* two Cells at A1, the later one in the document decides
C14_Witness ==
    /\ pc = "saved"
    /\ Len(Sheets) = 1
    /\ Len(FindAll(Sheets[1], "xcell")) = 2
    /\ FindAll(Sheets[1], "xcell")[1].attrib["addr"] = "A1"
    /\ FindAll(Sheets[1], "xcell")[2].attrib["addr"] = "A1"
    /\ FindAll(Sheets[1], "xcell")[1].attrib["v"] = "True"
    /\ FindAll(Sheets[1], "xcell")[2].attrib["v"] = "Overridden"
    /\ Cardinality(WritesAt(<<1, 1, 1>>)) = 2
    /\ FinalAt(<<1, 1, 1>>).value = Typed("str", "Overridden")

\* the Range loop of sheet s has run to its end
RangesDone(s) ==
    sheetIdx > s \/ (sheetIdx = s /\ pc \in {"repeats", "cells", "sheet", "saved"})

\* a Range whose corners are addresses of the grid and whose fill fits its hint
WellFormedRange(e) ==
    /\ Has(e, "from") /\ Has(e, "to") /\ Has(e, "fill")
    /\ IsAddress(e.attrib["from"]) /\ IsAddress(e.attrib["to"])
    /\ AddressRow(e.attrib["from"]) >= 1 /\ AddressRow(e.attrib["to"]) >= 1
    /\ infer_value(e.attrib["fill"], Get(e, "t", None)).ok

\* the numbers lying between a and b, whichever is larger
Between(a, b) == IF a <= b THEN a..b ELSE b..a

\* the cells of the inclusive rectangle spanned by two corners
Rectangle(corner1, corner2) ==
    Between(AddressRow(corner1), AddressRow(corner2))
        \X Between(AddressCol(corner1), AddressCol(corner2))

\* the writes that Range n of sheet s issued
RangeWrites(s, n) ==
    {i \in 1..Len(writes) :
        writes[i].sheet = s /\ writes[i].cat = "xrange" /\ writes[i].dir = n}

Numeral(k) == <<"0", "1", "2", "3">>[k + 1]

\* the text of the leaf that write w expands
TemplateOf(w) == FindAll(Issuer(w), "xv")[w.leaf + 1].text

\* what iteration i writes for a template, read off the specification
ExpandedLeaf(text, i) ==
    CASE text = "Row {{i}}"   -> Typed("str", "Row " \o Numeral(i))
      [] text = "Outer {{i}}" -> Typed("str", "Outer " \o Numeral(i))
      [] text = "Q{{i}}"      -> Typed("str", "Q" \o Numeral(i))
      [] text = "{{i0}}"      -> Typed("int", Numeral(i - 1))
      [] text = "{{i}}{{i0}}" -> Typed("int", Numeral(i) \o Numeral(i - 1))
      [] text = "0"           -> Typed("int", "0")
      [] OTHER                -> Typed("str", text)

\* the templates the Repeats of the document carry
KnownTemplates ==
    {"Row {{i}}", "Outer {{i}}", "Q{{i}}", "{{i0}}", "{{i}}{{i0}}", "0", "Test", "Inner"}

\* C16: iteration i of a Repeat writes the un-hinted inference of the leaf
\* text with '{{i}}' replaced by i and '{{i0}}' by i - 1 and the rest kept,
\* while a Row writes its leaves without any substitution.
C16_TemplateExpansion ==
    \A k \in 1..Len(writes) :
        /\ writes[k].cat = "xrepeat" =>
              /\ TemplateOf(writes[k]) \in KnownTemplates
              /\ writes[k].iter \in 1..3
              /\ writes[k].value = ExpandedLeaf(TemplateOf(writes[k]), writes[k].iter)
        /\ (writes[k].cat = "xrow" /\ Contains(TemplateOf(writes[k]), "{{")) =>
              writes[k].value = Typed("str", TemplateOf(writes[k]))

\* the second iteration wrote the string 'Row 2' and the integer 1, and a
\* Row wrote its placeholder untouched
C16_Witness ==
    /\ pc = "saved"
    /\ \E k \in 1..Len(writes) :
          /\ writes[k].cat = "xrepeat" /\ writes[k].iter = 2
          /\ TemplateOf(writes[k]) = "Row {{i}}"
          /\ writes[k].value = Typed("str", "Row 2")
    /\ \E k \in 1..Len(writes) :
          /\ writes[k].cat = "xrepeat" /\ writes[k].iter = 2
          /\ TemplateOf(writes[k]) = "{{i0}}"
          /\ writes[k].value = Typed("int", "1")
    /\ \E k \in 1..Len(writes) :
          /\ writes[k].cat = "xrow"
          /\ writes[k].value = Typed("str", "Row {{i}}")

\* a decimal row number of the grid
ResolvesToRow(text) == IsIntLiteral(text)

\* a column given in letters
ResolvesToCol(text) == IsLetters(text)

\* every address attribute of the document resolves to a cell of the grid
AddressesResolve ==
    /\ \A d \in Directives("xrow") :
          /\ Has(Directive("xrow", d), "r")
          /\ ResolvesToRow(Directive("xrow", d).attrib["r"])
          /\ ResolvesToCol(Get(Directive("xrow", d), "c", "A"))
    /\ \A d \in Directives("xrepeat") :
          /\ ResolvesToRow(Get(Directive("xrepeat", d), "r", "1"))
          /\ ResolvesToCol(Get(Directive("xrepeat", d), "c", "A"))
    /\ \A d \in Directives("xrange") :
          /\ Has(Directive("xrange", d), "from") /\ Has(Directive("xrange", d), "to")
          /\ IsAddress(Directive("xrange", d).attrib["from"])
          /\ IsAddress(Directive("xrange", d).attrib["to"])
    /\ \A d \in Directives("xcell") :
          /\ Has(Directive("xcell", d), "addr")
          /\ IsAddress(Directive("xcell", d).attrib["addr"])

\* the write phase stopped on a reference that does not resolve
AddressFailure ==
    /\ pc = "crashed"
    /\ \/ raised.type = "InvalidAddress"
       \/ /\ raised.type = "ValueError"
          /\ \E d \in Directives("xrow") :
                /\ Has(Directive("xrow", d), "r")
                /\ ~ResolvesToRow(Directive("xrow", d).attrib["r"])

\* C17: in a document the validator accepts every Row r and c, Repeat r and
\* c, Range from and to and Cell addr resolves, and the write phase never
\* stops on an unresolvable address.
C17_AddressesResolve ==
    PassedValidation => (AddressesResolve /\ ~AddressFailure)

\* C18 as stated: the names passed to create_sheet for an accepted document
\* are pairwise distinct.
C18_Original ==
    PassedValidation =>
        \A i, j \in 1..Len(created) : i # j => created[i] # created[j]

\* C18: for an accepted document two sheets are created under one name only
\* when both carry that name explicitly; no generated name equals another
\* generated name or an explicit one; and the validator and the compiler
\* take the same sheets, those whose name is absent or empty, as unnamed.
C18_SheetNameInvariant ==
    PassedValidation =>
        /\ \A i, j \in 1..Len(created) :
              (i # j /\ created[i] = created[j]) =>
                  /\ IsNamed(Sheets[i]) /\ IsNamed(Sheets[j])
                  /\ Sheets[i].attrib["name"] = Sheets[j].attrib["name"]
        /\ \A j \in 1..Len(created) :
              IF IsNamed(Sheets[j])
              THEN created[j] = Sheets[j].attrib["name"]
              ELSE created[j] = AutoNames[UnnamedUpTo(j)]
        /\ AutoGeneratedCount(doc) = UnnamedCount
        /\ pc = "saved" => auto_counter = UnnamedCount + 1

\* two sheets named Data, then a sheet without a name and one with an empty name
C18_Witness ==
    /\ pc = "saved"
    /\ created = <<"Data", "Data", "Sheet1", "Sheet2">>
    /\ ~Has(Sheets[3], "name")
    /\ Has(Sheets[4], "name") /\ Sheets[4].attrib["name"] = ""

====
